---- MODULE Spec2Model ----
(***************************************************************************)
(* Model of gem.py: the NFL chat assistant.                                *)
(*                                                                         *)
(*   - the four live-data tools (get_nfl_scoreboard, get_league_leaders,   *)
(*     get_team_stats, search_player_stats) as operators over the HTTP     *)
(*     responses they receive, computed branch by branch as the code does; *)
(*   - run_nfl_chat as a state machine: chat creation, the read loop, the  *)
(*     call of chat.send_message with the tool calls it makes, the reply   *)
(*     and the exception handlers.                                         *)
(*                                                                         *)
(* Strings are sequences of one-character strings, so that strip(),        *)
(* lower(), replace(" ", "") and the `in` substring test are computed.     *)
(***************************************************************************)
EXTENDS Integers, Sequences, FiniteSets, TLC

VARIABLES
    pc,         \* position of run_nfl_chat: "start", "read", "send", "done"
    chat,       \* the session object bound to `chat` (0: not created)
    sessions,   \* number of sessions client.chats.create has returned
    history,    \* conversation history held by the session `chat`
    reads,      \* the lines input() has returned, in order
    attempts,   \* number of input() calls made
    sent,       \* the send_message calls made, in order
    out,        \* what the last print of the loop showed
    lastExc,    \* the exception the current iteration caught ("none": none)
    turnHttp,   \* HTTP requests issued since the last line was read
    turnTools,  \* live-data functions invoked since the last line was read
    call,       \* tool specification: the invocation under test
    result      \* tool specification: what the invocation returned

vars == <<pc, chat, sessions, history, reads, attempts, sent, out, lastExc,
          turnHttp, turnTools, call, result>>

replVars == <<pc, chat, sessions, history, reads, attempts, sent, out, lastExc,
              turnHttp, turnTools>>

(***************************************************************************)
(* Bounds of the model.                                                    *)
(***************************************************************************)
MaxTurns == 3

MaxToolCalls == 2

MaxEvents == 2

MaxCats == 2

MaxFill == 5

MaxLeaders == 27

MaxLimit == 27

MaxRecordStats == 2

MaxResults == 1

MaxStats == 2

(***************************************************************************)
(* Strings.                                                                *)
(***************************************************************************)
UpperAlpha == <<"A", "B", "C", "D", "E", "F", "G", "H", "I", "J", "K", "L", "M", "N", "O", "P", "Q", "R", "S", "T", "U", "V", "W", "X", "Y", "Z">>

LowerAlpha == <<"a", "b", "c", "d", "e", "f", "g", "h", "i", "j", "k", "l", "m", "n", "o", "p", "q", "r", "s", "t", "u", "v", "w", "x", "y", "z">>

Whitespace == {" ", "\t", "\n"}

\* the lower-case letter of each upper-case letter
UpperToLower ==
    [c \in {UpperAlpha[i] : i \in 1..Len(UpperAlpha)} |->
        LowerAlpha[CHOOSE i \in 1..Len(UpperAlpha) : UpperAlpha[i] = c]]

LowerChar(c) == IF c \in DOMAIN UpperToLower THEN UpperToLower[c] ELSE c

\* str.lower()
Lower(s) == [i \in 1..Len(s) |-> LowerChar(s[i])]

RECURSIVE LStrip(_)
LStrip(s) ==
    IF s # <<>> /\ Head(s) \in Whitespace THEN LStrip(Tail(s)) ELSE s

RECURSIVE RStrip(_)
RStrip(s) ==
    IF s # <<>> /\ s[Len(s)] \in Whitespace
    THEN RStrip(SubSeq(s, 1, Len(s) - 1))
    ELSE s

\* str.strip()
Strip(s) == RStrip(LStrip(s))

IsSpace(c) == c = " "

\* str.replace(" ", "")
RemoveSpaces(s) == SelectSeq(s, LAMBDA c : ~IsSpace(c))

\* the test `sub in s` on strings
Contains(sub, s) ==
    \E i \in 0..(Len(s) - Len(sub)) : SubSeq(s, i + 1, i + Len(sub)) = sub

Min(a, b) == IF a < b THEN a ELSE b

Max(a, b) == IF a > b THEN a ELSE b

\* s[:n]
Prefix(s, n) == SubSeq(s, 1, Min(n, Len(s)))

sp == <<" ">>

(***************************************************************************)
(* Exceptions and results of a tool invocation.                            *)
(***************************************************************************)
\* classes derived from requests.exceptions.RequestException
RequestExceptions == {"ConnectionError", "Timeout", "HTTPError", "JSONDecodeError"}

\* classes derived from Exception
Exceptions ==
    RequestExceptions \cup {"AttributeError", "IndexError", "TypeError", "ValueError"}

\* a request issued with requests.get: the endpoint and its "limit" parameter
\* (0 when the call passes none)
Get(url, limit) == [url |-> url, limit |-> limit]

\* a function returning the string built from template `msg` and `lines`,
\* having issued the HTTP requests `requests`
Return(msg, lines, requests) ==
    [kind |-> "return", msg |-> msg, lines |-> lines, requests |-> requests]

\* a function left by exception `exc`
Raise(exc, requests) ==
    [kind |-> "raise", msg |-> exc, lines |-> <<>>, requests |-> requests]

\* requests.get(url, timeout=10) followed by raise_for_status() and json():
\* the exception they raise on this response, "none" when a JSON value comes back
FetchChecked(resp) ==
    IF resp.net # "ok" THEN resp.net
    ELSE IF resp.status # "ok" THEN "HTTPError"
    ELSE IF ~resp.body.json THEN "JSONDecodeError"
    ELSE "none"

\* requests.get(url, timeout=10) followed by json() alone (no raise_for_status)
FetchUnchecked(resp) ==
    IF resp.net # "ok" THEN resp.net
    ELSE IF ~resp.body.json THEN "JSONDecodeError"
    ELSE "none"

NetFailures == {"ConnectionError", "Timeout"}

\* the responses one request can get, over the JSON bodies `bodies`;
\* `nobody` is the body of a response that carries no JSON
Responses(bodies, nobody) ==
    [net : NetFailures, status : {"ok"}, body : {nobody}]
    \cup [net : {"ok"}, status : {"err"}, body : {nobody}]
    \cup [net : {"ok"}, status : {"ok"}, body : {nobody} \cup bodies]

\* the same, for a request whose status is not checked: an error status may
\* come with any body
ResponsesUnchecked(bodies, nobody) ==
    [net : NetFailures, status : {"ok"}, body : {nobody}]
    \cup [net : {"ok"}, status : {"ok", "err"}, body : {nobody} \cup bodies]

\* sequences over S of length at most n
RECURSIVE SeqsUpTo(_, _)
SeqsUpTo(S, n) ==
    IF n = 0 THEN {<<>>}
    ELSE LET shorter == SeqsUpTo(S, n - 1)
         IN  shorter \cup {Append(s, x) : s \in {t \in shorter : Len(t) = n - 1}, x \in S}

(***************************************************************************)
(* get_nfl_scoreboard                                                      *)
(***************************************************************************)
\* an event of the payload: its "competitions" key may be missing, and the
\* list it holds may be empty; a competition is its number of competitors
ScoreEvents ==
    [hasCompetitions : {FALSE}, competitions : {<<>>}]
    \cup [hasCompetitions : {TRUE}, competitions : SeqsUpTo(0..2, 1)]

ScoreNoBody == [json |-> FALSE, object |-> FALSE, events |-> <<>>]

ScoreBodies ==
    [json : {TRUE}, object : {FALSE}, events : {<<>>}]
    \cup [json : {TRUE}, object : {TRUE}, events : SeqsUpTo(ScoreEvents, MaxEvents)]

ScoreResponses == Responses(ScoreBodies, ScoreNoBody)

\* event.get("competitions", [{}])
EventCompetitions(event) ==
    IF event.hasCompetitions THEN event.competitions ELSE <<0>>

\* one pass of the loop over events: the line appended for the event
ScoreLine(event) ==
    IF EventCompetitions(event)[1] >= 2 THEN "score" ELSE "name"

\* the body of the try block
ScoreboardTry(resp) ==
    LET exc == FetchChecked(resp)
        events == resp.body.events
        reqs == <<Get("scoreboard", 0)>>
    IN  IF exc # "none" THEN Raise(exc, reqs)
        ELSE IF ~resp.body.object THEN Raise("AttributeError", reqs)
        ELSE IF events = <<>> THEN Return("no_games", <<>>, reqs)
        ELSE IF \E i \in 1..Len(events) : EventCompetitions(events[i]) = <<>>
             THEN Raise("IndexError", reqs)
        ELSE Return("scoreboard", [i \in 1..Len(events) |-> ScoreLine(events[i])], reqs)

\* faulty variant: the clause `except Exception` is missing
CatchRequestOnly(r) ==
    IF r.kind = "return" THEN r
    ELSE IF r.msg \in RequestExceptions THEN Return("fetch_error", <<r.msg>>, r.requests)
    ELSE r

\* the two except clauses of get_nfl_scoreboard and get_league_leaders
CatchRequestThenException(r) ==
    IF r.kind = "return" THEN r
    ELSE IF r.msg \in RequestExceptions THEN Return("fetch_error", <<r.msg>>, r.requests)
    ELSE IF r.msg \in Exceptions THEN Return("unexpected_error", <<r.msg>>, r.requests)
    ELSE r

get_nfl_scoreboard(resp) == CatchRequestThenException(ScoreboardTry(resp))

(***************************************************************************)
(* get_league_leaders                                                      *)
(***************************************************************************)
w_passing == <<"p", "a", "s", "s", "i", "n", "g">>

w_rushing == <<"r", "u", "s", "h", "i", "n", "g">>

w_receiving == <<"r", "e", "c", "e", "i", "v", "i", "n", "g">>

w_yards == <<"y", "a", "r", "d", "s">>

w_Yards == <<"Y", "a", "r", "d", "s">>

w_touchdowns == <<"t", "o", "u", "c", "h", "d", "o", "w", "n", "s">>

w_Touchdowns == <<"T", "o", "u", "c", "h", "d", "o", "w", "n", "s">>

w_tds == <<"t", "d", "s">>

w_passer == <<"p", "a", "s", "s", "e", "r">>

w_rating == <<"r", "a", "t", "i", "n", "g">>

w_Rating == <<"R", "a", "t", "i", "n", "g">>

w_qbr == <<"q", "b", "r">>

w_receptions == <<"r", "e", "c", "e", "p", "t", "i", "o", "n", "s">>

w_catches == <<"c", "a", "t", "c", "h", "e", "s">>

w_picks == <<"p", "i", "c", "k", "s">>

w_ints == <<"i", "n", "t", "s">>

w_interceptions == <<"i", "n", "t", "e", "r", "c", "e", "p", "t", "i", "o", "n", "s">>

w_sacks == <<"s", "a", "c", "k", "s">>

w_tackles == <<"t", "a", "c", "k", "l", "e", "s">>

\* the dictionary category_mapping, as its (key, value) pairs
category_mapping ==
    { <<w_passing \o sp \o w_yards, w_passing \o w_Yards>>,
      <<w_passing \o sp \o w_touchdowns, w_passing \o w_Touchdowns>>,
      <<w_passing \o sp \o w_tds, w_passing \o w_Touchdowns>>,
      <<w_passer \o sp \o w_rating, w_passing \o w_Rating>>,
      <<w_qbr, w_passing \o w_Rating>>,
      <<w_rushing \o sp \o w_yards, w_rushing \o w_Yards>>,
      <<w_rushing \o sp \o w_touchdowns, w_rushing \o w_Touchdowns>>,
      <<w_rushing \o sp \o w_tds, w_rushing \o w_Touchdowns>>,
      <<w_receiving \o sp \o w_yards, w_receiving \o w_Yards>>,
      <<w_receiving \o sp \o w_touchdowns, w_receiving \o w_Touchdowns>>,
      <<w_receiving \o sp \o w_tds, w_receiving \o w_Touchdowns>>,
      <<w_receptions, w_receptions>>,
      <<w_catches, w_receptions>>,
      <<w_picks, w_interceptions>>,
      <<w_ints, w_interceptions>>,
      <<w_sacks, w_sacks>>,
      <<w_tackles, w_tackles>> }

\* category_mapping.get(category.lower(), category)
NormalizedCategory(category) ==
    IF \E e \in category_mapping : e[1] = Lower(category)
    THEN (CHOOSE e \in category_mapping : e[1] = Lower(category))[2]
    ELSE category

LimitFloor == 1

LimitCap == 25

DefaultLimit == 10

AvailableCap == 5

\* faulty variant: the limit is capped but has no floor
EffectiveLimitNoFloor(limit) == Min(limit, LimitCap)

\* min(max(1, limit), 25)
EffectiveLimit(limit) == Min(Max(LimitFloor, limit), LimitCap)

\* the test of the first loop over all_categories
ExactMatch(cat, normalized) == RemoveSpaces(Lower(cat.name)) = Lower(normalized)

\* the test of the second loop over all_categories
SubstringMatch(cat, normalized) == Contains(Lower(normalized), Lower(cat.name))

\* the first loop `for cat_data in all_categories: if ...: target = ...; break`:
\* the leaders of the first category matching exactly, empty when none does
ExactLeaders(cats, normalized) ==
    IF \E i \in 1..Len(cats) : ExactMatch(cats[i], normalized)
    THEN cats[CHOOSE i \in 1..Len(cats) :
                /\ ExactMatch(cats[i], normalized)
                /\ \A j \in 1..(i - 1) : ~ExactMatch(cats[j], normalized)].leaders
    ELSE <<>>

\* the second loop: the leaders of the first category matching by substring,
\* target_leaders as it was when none does
SubstringLeaders(cats, normalized, before) ==
    IF \E i \in 1..Len(cats) : SubstringMatch(cats[i], normalized)
    THEN cats[CHOOSE i \in 1..Len(cats) :
                /\ SubstringMatch(cats[i], normalized)
                /\ \A j \in 1..(i - 1) : ~SubstringMatch(cats[j], normalized)].leaders
    ELSE before

\* faulty variant: one loop, matching by substring alone
TargetLeadersOnePass(cats, normalized) ==
    SubstringLeaders(cats, normalized, <<>>)

\* target_leaders after the two loops (an empty list stands for None too:
\* the code tests only `not target_leaders`)
TargetLeaders(cats, normalized) ==
    LET first == ExactLeaders(cats, normalized)
    IN  IF first = <<>>
        THEN SubstringLeaders(cats, normalized, first)
        ELSE first

\* the loop `for i, leader in enumerate(target_leaders[:limit], 1)`
LeaderLines(target, limit) ==
    [i \in 1..Len(Prefix(target, limit)) |-> [rank |-> i, leader |-> target[i]]]

\* available[:5]: the displayName of category i is written i
AvailableNames(cats) == [i \in 1..Len(Prefix(cats, AvailableCap)) |-> i]

\* the body of the try block
LeadersTry(category, limit, resp) ==
    LET normalized == NormalizedCategory(category)
        exc == FetchChecked(resp)
        reqs == <<Get("leaders", limit)>>
        cats == resp.body.leaders
        target == TargetLeaders(cats, normalized)
    IN  IF exc # "none" THEN Raise(exc, reqs)
        ELSE IF ~resp.body.object THEN Raise("AttributeError", reqs)
        ELSE IF target = <<>> THEN Return("no_leaders", AvailableNames(cats), reqs)
        ELSE Return("leaders", LeaderLines(target, limit), reqs)

get_league_leaders(category, limit, resp) ==
    CatchRequestThenException(LeadersTry(category, EffectiveLimit(limit), resp))

(***************************************************************************)
(* get_team_stats                                                          *)
(***************************************************************************)
w_New == <<"N", "e", "w">>

w_England == <<"E", "n", "g", "l", "a", "n", "d">>

w_Patriots == <<"P", "a", "t", "r", "i", "o", "t", "s">>

w_NE == <<"N", "E">>

w_Seattle == <<"S", "e", "a", "t", "t", "l", "e">>

w_Seahawks == <<"S", "e", "a", "h", "a", "w", "k", "s">>

w_SEA == <<"S", "E", "A">>

w_Jets == <<"J", "e", "t", "s">>

\* the "team" objects of the teams payload (the detail request is issued
\* whether or not the object has an "id": the URL is built from None then)
TeamObjects ==
    { [displayName |-> w_New \o sp \o w_England \o sp \o w_Patriots,
       abbreviation |-> w_NE, location |-> w_New \o sp \o w_England],
      [displayName |-> w_Seattle \o sp \o w_Seahawks,
       abbreviation |-> w_SEA, location |-> w_Seattle] }

TeamNames == {w_Patriots, w_NE, w_SEA, w_Jets}

\* "sports" and "leagues" are each a missing key, an empty list or a list of
\* one object; "teams" is the list found under them
PresenceTags == {"missing", "empty", "present"}

TeamsNoBody ==
    [json |-> FALSE, object |-> FALSE, sports |-> "missing", leagues |-> "missing",
     teams |-> <<>>]

TeamsBodies ==
    [json : {TRUE}, object : {FALSE}, sports : {"missing"}, leagues : {"missing"},
     teams : {<<>>}]
    \cup [json : {TRUE}, object : {TRUE}, sports : PresenceTags,
          leagues : {"missing"}, teams : {<<>>}]
    \cup [json : {TRUE}, object : {TRUE}, sports : {"present"},
          leagues : {"empty"}, teams : {<<>>}]
    \cup [json : {TRUE}, object : {TRUE}, sports : {"present"},
          leagues : {"present"}, teams : SeqsUpTo(TeamObjects, MaxCats)]

TeamsResponses == Responses(TeamsBodies, TeamsNoBody)

\* a "stats" entry of the record: its "value", numeric or not
RecordStats == [numeric : BOOLEAN, value : {7}]

DetailNoBody ==
    [json |-> FALSE, object |-> FALSE, items |-> "missing", hasStats |-> FALSE,
     stats |-> <<>>, nextEvent |-> FALSE]

DetailBodies ==
    [json : {TRUE}, object : {FALSE}, items : {"missing"}, hasStats : {FALSE},
     stats : {<<>>}, nextEvent : {FALSE}]
    \cup [json : {TRUE}, object : {TRUE}, items : PresenceTags, hasStats : {FALSE},
          stats : {<<>>}, nextEvent : BOOLEAN]
    \cup [json : {TRUE}, object : {TRUE}, items : {"present"}, hasStats : {TRUE},
          stats : SeqsUpTo(RecordStats, MaxRecordStats), nextEvent : BOOLEAN]

DetailResponses == ResponsesUnchecked(DetailBodies, DetailNoBody)

\* the test of the loop over teams
TeamMatches(team, search_term) ==
    \/ Contains(search_term, Lower(team.displayName))
    \/ search_term = Lower(team.abbreviation)
    \/ Contains(search_term, Lower(team.location))

\* record.get("stats", [{}])
StatsOrDefault(body) ==
    IF body.hasStats THEN body.stats ELSE <<[numeric |-> TRUE, value |-> 0]>>

\* the part of the try block after the detail response is parsed
TeamDetail(body, reqs) ==
    LET stats == StatsOrDefault(body)
        wins == stats[1]
        losses == IF body.hasStats /\ Len(body.stats) > 1
                  THEN stats[2]
                  ELSE [numeric |-> TRUE, value |-> 0]
    IN  IF ~body.object THEN Raise("AttributeError", reqs)
        ELSE IF body.items = "empty" THEN Raise("IndexError", reqs)
        ELSE IF stats = <<>> THEN Raise("IndexError", reqs)
        ELSE IF ~wins.numeric \/ ~losses.numeric THEN Raise("ValueError", reqs)
        ELSE Return("team",
                    <<[wins |-> wins.value, losses |-> losses.value,
                       next |-> body.nextEvent]>>,
                    reqs)

\* faulty variant: a failed detail request is issued once more
TeamTryRetry(team_name, resp, detail) ==
    LET exc == FetchChecked(resp)
        body == resp.body
        one == <<Get("teams", 0)>>
        two == <<Get("teams", 0), Get("team_detail", 0)>>
        three == <<Get("teams", 0), Get("team_detail", 0), Get("team_detail", 0)>>
        search_term == Lower(team_name)
        found == \E i \in 1..Len(body.teams) : TeamMatches(body.teams[i], search_term)
        exc2 == FetchUnchecked(detail)
    IN  IF exc # "none" THEN Raise(exc, one)
        ELSE IF ~body.object THEN Raise("AttributeError", one)
        ELSE IF body.sports = "empty" \/ body.leagues = "empty"
             THEN Raise("IndexError", one)
        ELSE IF ~found THEN Return("no_team", <<>>, one)
        ELSE IF exc2 # "none" THEN Raise(exc2, three)
        ELSE TeamDetail(detail.body, two)

\* the body of the try block
TeamTry(team_name, resp, detail) ==
    LET exc == FetchChecked(resp)
        body == resp.body
        one == <<Get("teams", 0)>>
        two == <<Get("teams", 0), Get("team_detail", 0)>>
        search_term == Lower(team_name)
        found == \E i \in 1..Len(body.teams) : TeamMatches(body.teams[i], search_term)
        exc2 == FetchUnchecked(detail)
    IN  IF exc # "none" THEN Raise(exc, one)
        ELSE IF ~body.object THEN Raise("AttributeError", one)
        ELSE IF body.sports = "empty" \/ body.leagues = "empty"
             THEN Raise("IndexError", one)
        ELSE IF ~found THEN Return("no_team", <<>>, one)
        ELSE IF exc2 # "none" THEN Raise(exc2, two)
        ELSE TeamDetail(detail.body, two)

\* a single clause `except Exception as e: return f"Error ...{str(e)}"`
CatchException(r, msg) ==
    IF r.kind = "return" THEN r
    ELSE IF r.msg \in Exceptions THEN Return(msg, <<r.msg>>, r.requests)
    ELSE r

get_team_stats(team_name, resp, detail) ==
    CatchException(TeamTry(team_name, resp, detail), "team_error")

(***************************************************************************)
(* search_player_stats                                                     *)
(***************************************************************************)
SearchLimit == 5

StatsCap == 5

\* a search result: "id" may be missing, "team" may be null
Players == [hasId : BOOLEAN, teamNull : BOOLEAN]

PlayerNames == {w_Jets}

SearchNoBody == [json |-> FALSE, object |-> FALSE, results |-> <<>>]

SearchBodies ==
    [json : {TRUE}, object : {FALSE}, results : {<<>>}]
    \cup [json : {TRUE}, object : {TRUE}, results : SeqsUpTo(Players, MaxResults)]

SearchResponses == Responses(SearchBodies, SearchNoBody)

\* an entry of athlete.statistics: with name and value, lacking one of them,
\* or not an object at all
StatEntries == {"ok", "blank", "malformed"}

AthleteNoBody == [json |-> FALSE, object |-> FALSE, statistics |-> <<>>]

\* statistics lists: up to MaxFill well-formed entries, then up to MaxStats
\* entries of any kind
StatLists ==
    { [i \in 1..f |-> "ok"] \o tail :
        f \in 0..MaxFill, tail \in SeqsUpTo(StatEntries, MaxStats) }

AthleteBodies ==
    [json : {TRUE}, object : {FALSE}, statistics : {<<>>}]
    \cup [json : {TRUE}, object : {TRUE}, statistics : StatLists]

AthleteResponses == ResponsesUnchecked(AthleteBodies, AthleteNoBody)

\* the loop `for stat in athlete_stats[:5]`, from entry i on: the lines added
\* to output until the loop ends or an entry raises
RECURSIVE StatLines(_, _)
StatLines(stats, i) ==
    IF i > Len(Prefix(stats, StatsCap)) \/ stats[i] = "malformed" THEN <<>>
    ELSE IF stats[i] = "ok" THEN <<[stat |-> i]>> \o StatLines(stats, i + 1)
    ELSE StatLines(stats, i + 1)

\* the inner try block with its bare `except: pass`: what it adds to output
SeasonStats(detail) ==
    IF FetchUnchecked(detail) # "none" THEN <<>>
    ELSE IF ~detail.body.object THEN <<>>
    ELSE IF detail.body.statistics = <<>> THEN <<>>
    ELSE <<"season_stats">> \o StatLines(detail.body.statistics, 1)

\* faulty variant: the detail request is not wrapped in its own try block
PlayerTryNoInnerTry(player_name, resp, detail) ==
    LET exc == FetchChecked(resp)
        one == <<Get("search", SearchLimit)>>
        two == <<Get("search", SearchLimit), Get("athlete", 0)>>
        results == resp.body.results
        player == results[1]
        exc2 == FetchUnchecked(detail)
    IN  IF exc # "none" THEN Raise(exc, one)
        ELSE IF ~resp.body.object THEN Raise("AttributeError", one)
        ELSE IF results = <<>> THEN Return("no_player", <<>>, one)
        ELSE IF player.teamNull THEN Raise("AttributeError", one)
        ELSE IF player.hasId /\ exc2 # "none" THEN Raise(exc2, two)
        ELSE IF player.hasId
             THEN Return("player", <<"header">> \o SeasonStats(detail), two)
        ELSE Return("player", <<"header">>, one)

\* the body of the outer try block
PlayerTry(player_name, resp, detail) ==
    LET exc == FetchChecked(resp)
        one == <<Get("search", SearchLimit)>>
        two == <<Get("search", SearchLimit), Get("athlete", 0)>>
        results == resp.body.results
        player == results[1]
    IN  IF exc # "none" THEN Raise(exc, one)
        ELSE IF ~resp.body.object THEN Raise("AttributeError", one)
        ELSE IF results = <<>> THEN Return("no_player", <<>>, one)
        ELSE IF player.teamNull THEN Raise("AttributeError", one)
        ELSE IF player.hasId
             THEN Return("player", <<"header">> \o SeasonStats(detail), two)
        ELSE Return("player", <<"header">>, one)

search_player_stats(player_name, resp, detail) ==
    CatchException(PlayerTry(player_name, resp, detail), "player_error")

(***************************************************************************)
(* The invocations of the four functions that the tool specification runs. *)
(***************************************************************************)
w_Passing == <<"P", "a", "s", "s", "i", "n", "g">>

w_PerGame == <<"P", "e", "r", "G", "a", "m", "e">>

\* category names of the leaders payload
CatNames ==
    << w_passing \o w_Yards,
       w_Passing \o sp \o w_Yards,
       w_passing \o w_Yards \o w_PerGame,
       w_sacks >>

\* n leaders of the category named CatNames[k], best first
LeaderList(k, n) == [j \in 1..n |-> (100 * k) + (n - j)]

LeaderCats(counts) ==
    { [name |-> CatNames[k], leaders |-> LeaderList(k, n)] :
        k \in 1..Len(CatNames), n \in counts }

FillerCat == [name |-> w_tackles, leaders |-> <<900>>]

LeadersNoBody == [json |-> FALSE, object |-> FALSE, leaders |-> <<>>]

LeadersBodies(lists) ==
    [json : {TRUE}, object : {FALSE}, leaders : {<<>>}]
    \cup [json : {TRUE}, object : {TRUE}, leaders : lists]

\* category lists that vary which categories match and where: up to MaxFill
\* unrelated categories, then up to MaxCats categories of any name
SelectionLists ==
    { [i \in 1..f |-> FillerCat] \o tail :
        f \in 0..MaxFill, tail \in SeqsUpTo(LeaderCats({0, 2}), MaxCats) }

\* category lists that vary how many leaders the one category has
LimitLists == { <<c>> : c \in LeaderCats(0..MaxLeaders) }

Categories ==
    { w_passing \o sp \o w_yards, w_passing \o w_Yards, w_yards, w_sacks, w_qbr }

Limits == (0 - 2)..MaxLimit

ScoreboardCalls == [fn : {"get_nfl_scoreboard"}, resp : ScoreResponses]

LeadersCalls ==
    [fn : {"get_league_leaders"}, category : Categories,
     limit : {LimitFloor, DefaultLimit},
     resp : Responses(LeadersBodies(SelectionLists), LeadersNoBody)]
    \cup [fn : {"get_league_leaders"}, category : {w_passing \o sp \o w_yards, w_yards},
          limit : Limits,
          resp : Responses(LeadersBodies(LimitLists), LeadersNoBody)]

TeamCalls ==
    [fn : {"get_team_stats"}, team_name : TeamNames, resp : TeamsResponses,
     detail : DetailResponses]

PlayerCalls ==
    [fn : {"search_player_stats"}, player_name : PlayerNames, resp : SearchResponses,
     detail : AthleteResponses]

NoCall == [fn |-> "none"]

NoResult == [kind |-> "none", msg |-> "none", lines |-> <<>>, requests |-> <<>>]

\* what the chat loop can observe of one invocation
Outcome(fn, r) == [fn |-> fn, kind |-> r.kind, http |-> Len(r.requests)]

ToolOutcomes ==
    { Outcome(c.fn, get_nfl_scoreboard(c.resp)) : c \in ScoreboardCalls }
    \cup { Outcome(c.fn, get_league_leaders(c.category, c.limit, c.resp)) : c \in LeadersCalls }
    \cup { Outcome(c.fn, get_team_stats(c.team_name, c.resp, c.detail)) : c \in TeamCalls }
    \cup { Outcome(c.fn, search_player_stats(c.player_name, c.resp, c.detail)) : c \in PlayerCalls }

(***************************************************************************)
(* run_nfl_chat                                                            *)
(***************************************************************************)
w_exit == <<"e", "x", "i", "t">>

w_quit == <<"q", "u", "i", "t">>

w_bye == <<"b", "y", "e">>

w_goodbye == <<"g", "o", "o", "d", "b", "y", "e">>

w_Exit == <<"E", "x", "i", "t">>

w_QUIT == <<"Q", "U", "I", "T">>

w_Hi == <<"H", "i">>

\* the list ["exit", "quit", "bye", "goodbye"]
Sentinels == {w_exit, w_quit, w_bye, w_goodbye}

\* lines input() may return
InputLines ==
    { <<>>, sp, w_Hi, sp \o w_Hi \o <<"\t">>, w_exit \o sp \o w_Hi,
      w_exit, sp \o w_Exit \o sp, w_QUIT, w_bye, w_goodbye }

\* exceptions input() may raise
InputExceptions == {"EOFError", "KeyboardInterrupt"}

\* exceptions chat.send_message may raise
SendExceptions == {"RateLimitError", "ServerError", "KeyboardInterrupt"}

\* classes derived from Exception among them
LoopExceptions == {"EOFError", "RateLimitError", "ServerError"}

\* input("...").strip()
UserInput(line) == Strip(line)

\* faulty variant: the comparison is case-sensitive
IsSentinelNoLower(user_input) == user_input \in Sentinels

\* user_input.lower() in ["exit", "quit", "bye", "goodbye"]
IsSentinel(user_input) == Lower(user_input) \in Sentinels

\* faulty variant: the lower-cased text is sent
MessageLowered(user_input) == Lower(user_input)

\* the argument of chat.send_message
Message(user_input) == user_input

\* faulty variant: a rate-limit error is answered from a canned-answer table
LoopHandlerFallback(exc) ==
    IF exc = "KeyboardInterrupt" THEN [out |-> "interrupted", pc |-> "done"]
    ELSE IF exc = "RateLimitError" THEN [out |-> "canned", pc |-> "read"]
    ELSE IF exc \in LoopExceptions THEN [out |-> "error", pc |-> "read"]
    ELSE [out |-> "traceback", pc |-> "done"]

\* faulty variant: end of input leaves the loop
LoopHandlerEofExits(exc) ==
    IF exc = "KeyboardInterrupt" THEN [out |-> "interrupted", pc |-> "done"]
    ELSE IF exc = "EOFError" THEN [out |-> "error", pc |-> "done"]
    ELSE IF exc \in LoopExceptions THEN [out |-> "error", pc |-> "read"]
    ELSE [out |-> "traceback", pc |-> "done"]

\* the except clauses of the loop: what is printed and where control goes
LoopHandler(exc) ==
    IF exc = "KeyboardInterrupt" THEN [out |-> "interrupted", pc |-> "done"]
    ELSE IF exc \in LoopExceptions THEN [out |-> "error", pc |-> "read"]
    ELSE [out |-> "traceback", pc |-> "done"]

\* chat = client.chats.create(...)
CreateChat ==
    /\ pc = "start"
    /\ sessions' = sessions + 1
    /\ chat' = sessions + 1
    /\ pc' = "read"
    /\ UNCHANGED <<history, reads, attempts, sent, out, lastExc, turnHttp, turnTools,
                   call, result>>

\* client.chats.create raises: the outer except clause
CreateChatRaises ==
    /\ pc = "start"
    /\ out' = "init_failed"
    /\ pc' = "done"
    /\ UNCHANGED <<chat, sessions, history, reads, attempts, sent, lastExc, turnHttp,
                   turnTools, call, result>>

\* input() returns `line`: the loop body up to `continue`, `break` or the
\* call of chat.send_message
ReadLine(line) ==
    LET user_input == UserInput(line)
    IN  /\ pc = "read"
        /\ attempts < MaxTurns
        /\ attempts' = attempts + 1
        /\ reads' = Append(reads, line)
        /\ lastExc' = "none"
        /\ turnHttp' = 0
        /\ turnTools' = 0
        /\ IF user_input = <<>>
           THEN /\ pc' = "read"
                /\ UNCHANGED <<sent, out>>
           ELSE IF IsSentinel(user_input)
           THEN /\ pc' = "done"
                /\ out' = "goodbye"
                /\ UNCHANGED sent
           ELSE /\ pc' = "send"
                /\ sent' = Append(sent, [message |-> Message(user_input), session |-> chat])
                /\ UNCHANGED out
        /\ UNCHANGED <<chat, sessions, history, call, result>>

\* input() raises
InputRaises(exc) ==
    /\ pc = "read"
    /\ attempts < MaxTurns
    /\ attempts' = attempts + 1
    /\ lastExc' = exc
    /\ out' = LoopHandler(exc).out
    /\ pc' = LoopHandler(exc).pc
    /\ UNCHANGED <<chat, sessions, history, reads, sent, turnHttp, turnTools, call, result>>

\* automatic function calling: send_message invokes one of the tools
ToolCall(o) ==
    /\ pc = "send"
    /\ turnTools < MaxToolCalls
    /\ o.kind = "return"
    /\ turnTools' = turnTools + 1
    /\ turnHttp' = turnHttp + o.http
    /\ UNCHANGED <<pc, chat, sessions, history, reads, attempts, sent, out, lastExc,
                   call, result>>

\* chat.send_message returns and the reply is printed
SendReturns ==
    /\ pc = "send"
    /\ history' = Append(history, sent[Len(sent)].message)
    /\ out' = "reply"
    /\ pc' = "read"
    /\ UNCHANGED <<chat, sessions, reads, attempts, sent, lastExc, turnHttp, turnTools,
                   call, result>>

\* faulty variant: a failed turn replaces the session by a new one
SendRaisesNewSession(exc) ==
    /\ pc = "send"
    /\ lastExc' = exc
    /\ out' = LoopHandler(exc).out
    /\ pc' = LoopHandler(exc).pc
    /\ sessions' = sessions + 1
    /\ chat' = sessions + 1
    /\ history' = <<>>
    /\ UNCHANGED <<reads, attempts, sent, turnHttp, turnTools, call, result>>

\* chat.send_message raises
SendRaises(exc) ==
    /\ pc = "send"
    /\ lastExc' = exc
    /\ out' = LoopHandler(exc).out
    /\ pc' = LoopHandler(exc).pc
    /\ UNCHANGED <<chat, sessions, history, reads, attempts, sent, turnHttp, turnTools,
                   call, result>>

Init ==
    /\ pc = "start"
    /\ chat = 0
    /\ sessions = 0
    /\ history = <<>>
    /\ reads = <<>>
    /\ attempts = 0
    /\ sent = <<>>
    /\ out = "banner"
    /\ lastExc = "none"
    /\ turnHttp = 0
    /\ turnTools = 0
    /\ call = NoCall
    /\ result = NoResult

Next ==
    \/ CreateChat
    \/ CreateChatRaises
    \/ \E line \in InputLines : ReadLine(line)
    \/ \E exc \in InputExceptions : InputRaises(exc)
    \/ \E o \in ToolOutcomes : ToolCall(o)
    \/ SendReturns
    \/ \E exc \in SendExceptions : SendRaises(exc)

Spec == Init /\ [][Next]_vars

(***************************************************************************)
(* The tool specification: one invocation of one live-data function on     *)
(* arguments and HTTP responses drawn from the sets above.                 *)
(***************************************************************************)
InitTools ==
    /\ pc = "start"
    /\ chat = 0
    /\ sessions = 0
    /\ history = <<>>
    /\ reads = <<>>
    /\ attempts = 0
    /\ sent = <<>>
    /\ out = "banner"
    /\ lastExc = "none"
    /\ turnHttp = 0
    /\ turnTools = 0
    /\ \/ call \in ScoreboardCalls
       \/ call \in LeadersCalls
       \/ call \in TeamCalls
       \/ call \in PlayerCalls
    /\ result = NoResult

CallScoreboard ==
    /\ call.fn = "get_nfl_scoreboard"
    /\ result = NoResult
    /\ result' = get_nfl_scoreboard(call.resp)
    /\ UNCHANGED <<replVars, call>>

CallLeaders ==
    /\ call.fn = "get_league_leaders"
    /\ result = NoResult
    /\ result' = get_league_leaders(call.category, call.limit, call.resp)
    /\ UNCHANGED <<replVars, call>>

CallTeam ==
    /\ call.fn = "get_team_stats"
    /\ result = NoResult
    /\ result' = get_team_stats(call.team_name, call.resp, call.detail)
    /\ UNCHANGED <<replVars, call>>

CallPlayer ==
    /\ call.fn = "search_player_stats"
    /\ result = NoResult
    /\ result' = search_player_stats(call.player_name, call.resp, call.detail)
    /\ UNCHANGED <<replVars, call>>

NextTools == CallScoreboard \/ CallLeaders \/ CallTeam \/ CallPlayer

SpecTools == InitTools /\ [][NextTools]_vars

(***************************************************************************)
(* Properties of run_nfl_chat (specification Spec).                        *)
(***************************************************************************)
\* the line, stripped and lower-cased, is one of the sentinel commands
SentinelLine(line) == Lower(Strip(line)) \in {w_exit, w_quit, w_bye, w_goodbye}

\* the stripped lines that are neither empty nor sentinel commands, in order
Sendable(lines) ==
    SelectSeq([i \in 1..Len(lines) |-> Strip(lines[i])],
              LAMBDA m : m # <<>> /\ Lower(m) \notin {w_exit, w_quit, w_bye, w_goodbye})

IsPrefix(s, t) == Len(s) <= Len(t) /\ SubSeq(t, 1, Len(s)) = s

\* C1: a line that strips and lower-cases to exit, quit, bye or goodbye ends
\* the loop on that turn: it is the last line ever read, the loop is left with
\* the goodbye message, and no message sent to the LLM is a sentinel command.
C1_SentinelEndsLoop ==
    /\ \A i \in 1..Len(reads) :
          SentinelLine(reads[i]) =>
              /\ i = Len(reads)
              /\ pc = "done"
              /\ out = "goodbye"
              /\ Len(sent) = Len(Sendable(SubSeq(reads, 1, i - 1)))
    /\ \A j \in 1..Len(sent) : ~SentinelLine(sent[j].message)

C1_Witness ==
    /\ pc = "done"
    /\ Len(reads) = 2
    /\ reads[2] = sp \o w_Exit \o sp
    /\ Len(sent) = 1

\* C3 as stated: a chat turn issues at most one HTTP request.
C3_OneRequestPerTurn == turnHttp <= 1

\* C3 amended: every invocation of a live-data function issues one or two
\* HTTP requests (get_nfl_scoreboard and get_league_leaders exactly one), so a
\* turn issues at least as many requests as it invokes functions and at most
\* twice as many.
C3_RequestsPerTurn ==
    /\ turnTools <= turnHttp
    /\ turnHttp <= 2 * turnTools
    /\ \A o \in ToolOutcomes :
          /\ o.http \in {1, 2}
          /\ o.fn \in {"get_nfl_scoreboard", "get_league_leaders"} => o.http = 1

C3_Witness == turnTools = 1 /\ turnHttp = 2 /\ out = "reply" /\ pc = "read"

\* C4 as stated: the turn is answered with a canned response exactly when
\* send_message failed with a rate-limit error.
C4_CannedIffRateLimit == (lastExc = "RateLimitError") <=> (out = "canned")

\* C4 amended: no canned response is ever produced; a rate-limit failure of
\* send_message is answered like any other failure, with the generic error
\* message, and the loop goes on reading.
C4_RateLimitIsGenericError ==
    /\ out # "canned"
    /\ lastExc \in {"RateLimitError", "ServerError"} => out = "error" /\ pc = "read"

C4_Witness == lastExc = "RateLimitError" /\ out = "error" /\ Len(sent) = 1

\* C5: the messages sent are exactly the stripped lines that are non-empty
\* and not sentinel commands, in order and unchanged; live-data functions are
\* invoked only while send_message is running, that is after the message is
\* sent and before the reply is printed.
C5_SendIffSendable ==
    /\ [][turnTools' > turnTools =>
            pc = "send" /\ pc' = "send" /\ sent' = sent /\ out' = out]_vars
    /\ [](/\ [j \in 1..Len(sent) |-> sent[j].message] = Sendable(reads)
          /\ turnTools > 0 =>
                /\ Len(sent) > 0
                /\ sent[Len(sent)].message = Strip(reads[Len(reads)]))

C5_Witness ==
    /\ reads = <<sp \o w_Hi \o <<"\t">>, w_exit \o sp \o w_Hi>>
    /\ Len(sent) = 2
    /\ sent[1].message = w_Hi
    /\ turnTools = 1
    /\ pc = "send"

\* C6: once the session is created (before any input is read) it is the only
\* one: every message goes through it, also after a failed turn, it is never
\* replaced, and its history only grows.
C6_OneSession ==
    /\ [][IsPrefix(history, history') /\ (chat # 0 => chat' = chat)]_vars
    /\ [](/\ sessions <= 1
          /\ attempts > 0 => chat = 1 /\ sessions = 1
          /\ \A j \in 1..Len(sent) : sent[j].session = 1
          /\ Len(history) <= Len(sent))

C6_Witness ==
    /\ Len(sent) = 2
    /\ history = <<>>
    /\ lastExc = "none"
    /\ pc = "send"
    /\ sent[2].session = 1

\* C9: with the session created, the loop is left only by a sentinel command
\* or a KeyboardInterrupt; any other exception of input() or send_message is
\* answered with the error message and the loop reads again, so a loop whose
\* input always fails never ends.
C9_LoopExits ==
    /\ pc = "done" /\ chat # 0 =>
          \/ out = "goodbye" /\ Len(reads) > 0 /\ SentinelLine(reads[Len(reads)])
          \/ out = "interrupted" /\ lastExc = "KeyboardInterrupt"
    /\ lastExc \in {"EOFError", "RateLimitError", "ServerError"} =>
          out = "error" /\ pc = "read"
    /\ reads = <<>> /\ attempts > 0 /\ lastExc # "KeyboardInterrupt" => pc = "read"

C9_Witness ==
    /\ reads = <<>>
    /\ attempts = 2
    /\ lastExc = "EOFError"
    /\ pc = "read"

(***************************************************************************)
(* Properties of the live-data functions (specification SpecTools).        *)
(***************************************************************************)
Returned == result # NoResult

\* the templates of the strings the four functions return
ReturnedStrings ==
    { "scoreboard", "no_games", "leaders", "no_leaders", "team", "no_team",
      "player", "no_player", "fetch_error", "unexpected_error", "team_error",
      "player_error" }

\* C2: whatever the HTTP calls do, each live-data function returns a string:
\* formatted data, a default message or an error message, never an exception.
C2_AlwaysReturnsString ==
    Returned => result.kind = "return" /\ result.msg \in ReturnedStrings

C2_Witness ==
    /\ call.fn = "get_nfl_scoreboard"
    /\ result.msg = "unexpected_error"
    /\ result.lines = <<"IndexError">>

\* the limit in force for a requested limit
Clamped(limit) == IF limit < 1 THEN 1 ELSE IF limit > 25 THEN 25 ELSE limit

\* C7: get_league_leaders requests with limit min(max(1, limit), 25) and, on
\* success, lists at most that many leaders, ranked 1, 2, ... in the order of
\* one category's leader list in the payload.
C7_EffectiveLimit ==
    Returned /\ call.fn = "get_league_leaders" =>
        /\ result.requests = <<[url |-> "leaders", limit |-> Clamped(call.limit)]>>
        /\ result.msg = "leaders" =>
              /\ Len(result.lines) <= Clamped(call.limit)
              /\ Len(result.lines) <= 25
              /\ Len(result.lines) >= 1
              /\ \E k \in 1..Len(call.resp.body.leaders) :
                    LET payload == call.resp.body.leaders[k].leaders
                    IN  /\ Len(result.lines) = Min(Len(payload), Clamped(call.limit))
                        /\ \A i \in 1..Len(result.lines) :
                              /\ result.lines[i].rank = i
                              /\ result.lines[i].leader = payload[i]

C7_Witness ==
    /\ call.fn = "get_league_leaders"
    /\ call.limit = 27
    /\ result.msg = "leaders"
    /\ Len(result.lines) = 25
    /\ Len(call.resp.body.leaders[1].leaders) = 27

\* positions of the categories matching exactly, and by substring
ExactAt(cats, norm) ==
    {i \in 1..Len(cats) : RemoveSpaces(Lower(cats[i].name)) = norm}

SubstringAt(cats, norm) ==
    {i \in 1..Len(cats) : Contains(norm, Lower(cats[i].name))}

Lowest(S) == CHOOSE i \in S : \A j \in S : i <= j

\* the result is the ranking of `leaders`
Ranks(leaders, limit) ==
    /\ result.msg = "leaders"
    /\ [i \in 1..Len(result.lines) |-> result.lines[i].leader] = Prefix(leaders, limit)

\* C8: the first category matching exactly is used when it has leaders, even
\* behind a category matching by substring; failing that, the first category
\* matching by substring; and when neither has leaders the result is the
\* "Could not find leaders" message with at most the first five categories.
C8_TwoPassSelection ==
    (/\ Returned
     /\ call.fn = "get_league_leaders"
     /\ FetchChecked(call.resp) = "none"
     /\ call.resp.body.object) =>
        LET cats == call.resp.body.leaders
            norm == Lower(NormalizedCategory(call.category))
            exact == ExactAt(cats, norm)
            substr == SubstringAt(cats, norm)
            limit == Clamped(call.limit)
        IN  IF exact # {} /\ cats[Lowest(exact)].leaders # <<>>
            THEN Ranks(cats[Lowest(exact)].leaders, limit)
            ELSE IF substr # {} /\ cats[Lowest(substr)].leaders # <<>>
            THEN Ranks(cats[Lowest(substr)].leaders, limit)
            ELSE /\ result.msg = "no_leaders"
                 /\ Len(result.lines) <= 5
                 /\ result.lines = [i \in 1..Min(5, Len(cats)) |-> i]

C8_Witness ==
    /\ call.fn = "get_league_leaders"
    /\ call.category = w_passing \o sp \o w_yards
    /\ Len(call.resp.body.leaders) = 2
    /\ call.resp.body.leaders[1].name = w_passing \o w_Yards \o w_PerGame
    /\ call.resp.body.leaders[1].leaders # <<>>
    /\ call.resp.body.leaders[2].name = w_Passing \o sp \o w_Yards
    /\ call.resp.body.leaders[2].leaders # <<>>
    /\ result.msg = "leaders"
    /\ result.lines[1].leader = call.resp.body.leaders[2].leaders[1]

\* the detail request failed: network error, invalid JSON or no statistics
DetailFailed(detail) ==
    \/ detail.net # "ok"
    \/ ~detail.body.json
    \/ ~detail.body.object
    \/ detail.body.statistics = <<>>

\* C10: when the search succeeds with a result, a failed detail request only
\* removes the season-stats section: the header with the Team and Position
\* line is still returned, not an error string; and a first result without id
\* causes no detail request.
C10_DetailFailureKeepsHeader ==
    (/\ Returned
     /\ call.fn = "search_player_stats"
     /\ FetchChecked(call.resp) = "none"
     /\ call.resp.body.object
     /\ call.resp.body.results # <<>>) =>
        /\ ~call.resp.body.results[1].hasId =>
              /\ Len(result.requests) = 1
              /\ \A i \in 1..Len(result.requests) : result.requests[i].url # "athlete"
        /\ (Len(result.requests) = 2 /\ DetailFailed(call.detail)) =>
              /\ result.kind = "return"
              /\ result.msg = "player"
              /\ result.lines = <<"header">>

C10_Witness ==
    /\ call.fn = "search_player_stats"
    /\ call.detail.net = "Timeout"
    /\ Len(result.requests) = 2
    /\ result.msg = "player"
    /\ result.lines = <<"header">>

====
